---- MODULE Spec2Model ----
(***************************************************************************)
(* The Wild Oasis: overlay coordination (Menus, Modal, useOutsideClick)    *)
(* and query-state synchronisation (Filter, SortBy, Pagination,            *)
(* useBookings and the query cache behind it).                             *)
(***************************************************************************)
EXTENDS Integers, Sequences, FiniteSets, TLC

(***************************************************************************)
(* Bounds of the model.                                                    *)
(***************************************************************************)
\* Menus.Toggle ids 1..MaxId are mounted in every scope; the last one has no
\* Menus.List (an id with no matching surface).
MaxId == 3

\* One Menus provider (with its Modal provider) per table row.
Scopes == {"rowA", "rowB"}

(***************************************************************************)
(* Overlay registry: the elements of the document.                         *)
(***************************************************************************)
ToggleIds == {ToString(i) : i \in 1..MaxId}

ListIds == {ToString(i) : i \in 1..(MaxId - 1)}

\* Modal.Window names of a row, and the Menus.Button entries of a list.
WindowNames == {"edit", "delete"}

\* Names the Modal.Open triggers of a row pass to open: the window names and
\* one that no Modal.Window carries.
OpenNames == WindowNames \cup {"edits"}

ItemActions == {"duplicate", "edit", "delete"}

\* An element: its kind, the row it belongs to, the id (or name, or entry) it
\* was rendered for, and for an entry of a list the id of that list.
Node(kind, scope, id, list) == [kind |-> kind, scope |-> scope, id |-> id, list |-> list]

Elem(kind, scope, id) == Node(kind, scope, id, "")

\* ref.current of a hook whose element is not rendered.
NoElem == Elem("none", "", "")

Body == Elem("body", "", "")

\* An element of the page whose onClick calls event.stopPropagation().
Stopper == Elem("stopper", "", "")

StopsPropagation(e) == e.kind = "stopper"

\* Bounding box of the toggle button of a row entry, and window.innerWidth.
ButtonRect(id) ==
    [x |-> 900, y |-> 100 * CHOOSE i \in 1..MaxId : ToString(i) = id,
     width |-> 32, height |-> 32]

InnerWidths == {1000}

NullPosition == [null |-> TRUE]

VARIABLES
    openId,      \* Menus: useState("") of each provider
    position,    \* Menus: useState(null) of each provider
    openName,    \* Modal: useState("") of each provider
    phase,       \* "idle", or "bubble" between the document's capture
                 \* listeners and React's onClick of one press
    target,      \* event.target of the press being handled
    calls,       \* per useOutsideClick instance: handler() calls in this press
    boundaryAt,  \* per useOutsideClick instance: ref.current at this press
    toggleRun,   \* per Menus provider: the Toggle id whose handleClick ran last
                 \* and how many times in a row, counted from a closed menu,
                 \* with no other open or close call in between
    lastOpen,    \* the open(id) call of the press handled last: provider,
                 \* row, id, and the id that was open when it was called
    listeners    \* per useOutsideClick instance: the click listeners it has
                 \* on the document

overlayVars ==
    <<openId, position, openName, phase, target, calls, boundaryAt, toggleRun,
      lastOpen, listeners>>

\* One useOutsideClick instance per Menus.List and per Modal.Window.
Detectors ==
    {Elem("list", s, i) : s \in Scopes, i \in ListIds}
        \cup {Elem("window", s, n) : s \in Scopes, n \in WindowNames}

\* The element the ref of a hook instance is attached to: the StyledList or
\* StyledModal when its component rendered it, nothing otherwise.
\* A list that shows whenever any menu of its provider is open.
ListRendered_AnyOpen(oid, id) == oid # ""

ListRendered(oid, id) == oid = id

\* A window that shows whenever any window of its provider is open.
WindowRendered_AnyOpen(oname, name) == oname # ""

WindowRendered(oname, name) == oname = name

Ref(d) ==
    IF d.kind = "list"
    THEN IF ListRendered(openId[d.scope], d.id) THEN d ELSE NoElem
    ELSE IF WindowRendered(openName[d.scope], d.id) THEN d ELSE NoElem

Item(s, l, a) == Node("item", s, a, l)

\* The DOM parent of an element (portals hang under document.body).
Parent(e) ==
    CASE e.kind = "icon"     -> Elem("toggle", e.scope, e.id)
      [] e.kind = "item"     -> Elem("list", e.scope, e.list)
      [] e.kind = "closeBtn" -> Elem("window", e.scope, e.id)
      [] e.kind = "window"   -> Elem("overlay", e.scope, e.id)
      [] e.kind = "body"     -> NoElem
      [] e.kind = "none"     -> NoElem
      [] OTHER               -> Body

\* Node.contains: inclusive descendant test.
RECURSIVE Contains(_, _)
Contains(a, b) ==
    IF b = NoElem THEN FALSE
    ELSE IF a = b THEN TRUE
    ELSE Contains(a, Parent(b))

\* The elements a press can land on in the current state.
Rendered ==
    {Body, Stopper}
        \cup {Elem("toggle", s, i) : s \in Scopes, i \in ToggleIds}
        \cup {Elem("icon", s, i) : s \in Scopes, i \in ToggleIds}
        \cup {Elem("opener", s, n) : s \in Scopes, n \in OpenNames}
        \cup {d \in Detectors : Ref(d) = d}
        \cup {e \in {Item(s, l, a) : s \in Scopes, l \in ListIds, a \in ItemActions} :
                    ListRendered(openId[e.scope], e.list)}
        \cup {e \in {Elem(k, s, n) : k \in {"closeBtn", "overlay"}, s \in Scopes,
                                     n \in WindowNames} :
                    WindowRendered(openName[e.scope], e.id)}


(***************************************************************************)
(* Menus and Modal providers.                                              *)
(***************************************************************************)
\* A close that leaves the provider as it is.
close_Noop(state, s) == state

\* const close = () => setOpenId("")   (Modal: setOpenName(""))
close(state, s) == [state EXCEPT ![s] = ""]

\* An open that keeps the id that is open already.
open_KeepFirst(state, s, id) == IF state[s] = "" THEN [state EXCEPT ![s] = id] ELSE state

\* const open = setOpenId              (Modal: setOpenName)
open(state, s, id) == [state EXCEPT ![s] = id]

\* A handleClick that never takes the close branch.
ToggleNext_AlwaysOpen(oid, s, id) == open(oid, s, id)

\* Menus.Toggle handleClick: the new openId of the provider.
ToggleNext(oid, s, id) ==
    IF oid[s] = "" \/ oid[s] # id THEN open(oid, s, id) ELSE close(oid, s)

\* Menus.Toggle handleClick: the position computed from the button's box.
MenuOffset == 8

\* A position at the top of the button instead of below it.
TogglePosition_NoOffset(rect, innerWidth) ==
    [null |-> FALSE, x |-> innerWidth - rect.width - rect.x, y |-> rect.y]

TogglePosition(rect, innerWidth) ==
    [null |-> FALSE,
     x |-> innerWidth - rect.width - rect.x,
     y |-> rect.y + rect.height + MenuOffset]

(***************************************************************************)
(* useOutsideClick.                                                        *)
(***************************************************************************)
\* useOutsideClick(handler, listenCapturing = true): every caller passes the
\* handler alone, so each instance listens in the capture phase.
\* A hook whose listeners wait for the bubble phase.
ListenCapturing_Bubble(d) == FALSE

ListenCapturing(d) == TRUE

\* A listener on the document: the handleClick of the effect run that added
\* it ("current" for the latest run, "stale" for an earlier one) and the
\* capture flag it was added with.
Listener(fn, capture) == [fn |-> fn, capture |-> capture]

\* After a render the listener attached so far belongs to the previous run.
Outdate(ls) == {Listener("stale", l.capture) : l \in ls}

\* A cleanup that asks for the other phase than the listener was added in.
Cleanup_OtherFlag(ls, d) == ls \ {Listener("stale", ~ListenCapturing(d))}

\* The cleanup of the previous effect run: removeEventListener with its own
\* handleClick and its own listenCapturing.
Cleanup(ls, d) == ls \ {Listener("stale", ListenCapturing(d))}

\* An effect body that adds no listener.
Attach_None(ls, d) == ls

\* The effect body: addEventListener("click", handleClick, {capture}).
Attach(ls, d) == ls \cup {Listener("current", ListenCapturing(d))}

\* The effect runs again because handler (the provider's close, a new function
\* on every render of the provider) changed.
EffectRerun(ls, d) == Attach(Cleanup(Outdate(ls), d), d)

\* The provider of an instance rendered again: its state changed.
ProviderChanged(d, oid, pos, oname, oid2, pos2, oname2) ==
    IF d.kind = "list"
    THEN oid2[d.scope] # oid[d.scope] \/ pos2[d.scope] # pos[d.scope]
    ELSE oname2[d.scope] # oname[d.scope]

\* An outside test that does not look whether the ref holds an element.
OutsideFires_NoRefCheck(ref, t) == ~Contains(ref, t)

\* A containment test that leaves out the element itself.
OutsideFires_Strict(ref, t) == ref # NoElem /\ (t = ref \/ ~Contains(ref, t))

\* handleClick of one hook instance: whether handler() is called for a press
\* on t, given the element ref.current holds.
OutsideFires(ref, t) == ref # NoElem /\ ~Contains(ref, t)

NoRun == [id |-> "", n |-> 0]

NoOpen == [provider |-> "", scope |-> "", id |-> "", over |-> ""]

OpenCall(provider, s, id, over) ==
    [provider |-> provider, scope |-> s, id |-> id, over |-> over]

\* The run of Toggle calls after handleClick of Toggle id ran on a provider
\* whose openId was oid.
RunAfterToggle(run, oid, id) ==
    IF run.id = id /\ run.n = 1 THEN [id |-> id, n |-> 2]
    ELSE IF oid = "" THEN [id |-> id, n |-> 1]
    ELSE NoRun

OverlayInit ==
    /\ openId = [s \in Scopes |-> ""]
    /\ position = [s \in Scopes |-> NullPosition]
    /\ openName = [s \in Scopes |-> ""]
    /\ phase = "idle"
    /\ target = NoElem
    /\ calls = [d \in Detectors |-> 0]
    /\ boundaryAt = [d \in Detectors |-> NoElem]
    /\ toggleRun = [s \in Scopes |-> NoRun]
    /\ lastOpen = NoOpen
    /\ listeners = [d \in Detectors |-> Attach({}, d)]

\* A press reaches the document: every attached handleClick runs in the capture
\* phase, each calling its handler (the provider's close) when the press is
\* outside its element.
PressCapture(t) ==
    /\ phase = "idle"
    /\ t \in Rendered
    /\ LET capturing == [d \in Detectors |-> {l \in listeners[d] : l.capture}]
           fired == {d \in Detectors :
                        capturing[d] # {} /\ OutsideFires(Ref(d), t)}
       IN /\ calls' = [d \in Detectors |->
                          IF d \in fired THEN Cardinality(capturing[d]) ELSE 0]
          /\ boundaryAt' = [d \in Detectors |-> Ref(d)]
          /\ openId' = [s \in Scopes |->
                          IF \E d \in fired : d.kind = "list" /\ d.scope = s
                          THEN close(openId, s)[s] ELSE openId[s]]
          /\ openName' = [s \in Scopes |->
                          IF \E d \in fired : d.kind = "window" /\ d.scope = s
                          THEN close(openName, s)[s] ELSE openName[s]]
          /\ toggleRun' = [s \in Scopes |->
                          IF \E d \in fired : d.kind = "list" /\ d.scope = s
                          THEN NoRun ELSE toggleRun[s]]
    /\ phase' = "bubble"
    /\ target' = t
    /\ lastOpen' = NoOpen
    /\ listeners' = [d \in Detectors |->
                        IF ProviderChanged(d, openId, position, openName,
                                           openId', position, openName')
                        THEN EffectRerun(listeners[d], d) ELSE listeners[d]]
    /\ UNCHANGED position

\* The press then reaches React's onClick of the element it landed on, which
\* sees the state the capture phase left.
PressBubble ==
    /\ phase = "bubble"
    /\ \E w \in InnerWidths :
         CASE target.kind \in {"toggle", "icon"} ->
                /\ position' = [position EXCEPT
                                   ![target.scope] = TogglePosition(ButtonRect(target.id), w)]
                /\ openId' = ToggleNext(openId, target.scope, target.id)
                /\ toggleRun' = [toggleRun EXCEPT ![target.scope] =
                                    RunAfterToggle(@, openId[target.scope], target.id)]
                /\ lastOpen' = IF openId[target.scope] = target.id THEN NoOpen
                               ELSE OpenCall("menus", target.scope, target.id,
                                             openId[target.scope])
                /\ UNCHANGED openName
           [] target.kind = "item" /\ target \in Rendered ->
                /\ openName' = IF target.id \in WindowNames
                               THEN open(openName, target.scope, target.id)
                               ELSE openName
                /\ openId' = close(openId, target.scope)
                /\ toggleRun' = [toggleRun EXCEPT ![target.scope] = NoRun]
                /\ lastOpen' = IF target.id \in WindowNames
                               THEN OpenCall("modal", target.scope, target.id,
                                             openName[target.scope])
                               ELSE NoOpen
                /\ UNCHANGED position
           [] target.kind = "opener" ->
                /\ openName' = open(openName, target.scope, target.id)
                /\ lastOpen' = OpenCall("modal", target.scope, target.id,
                                        openName[target.scope])
                /\ UNCHANGED <<openId, position, toggleRun>>
           [] target.kind = "closeBtn" /\ target \in Rendered ->
                /\ openName' = close(openName, target.scope)
                /\ UNCHANGED <<openId, position, toggleRun, lastOpen>>
           [] OTHER -> UNCHANGED <<openId, position, openName, toggleRun, lastOpen>>
    /\ listeners' = [d \in Detectors |->
                        IF ProviderChanged(d, openId, position, openName,
                                           openId', position', openName')
                        THEN EffectRerun(listeners[d], d) ELSE listeners[d]]
    /\ phase' = "idle"
    /\ target' = NoElem
    /\ calls' = [d \in Detectors |-> 0]
    /\ boundaryAt' = [d \in Detectors |-> NoElem]

OverlayNext ==
    \/ \E t \in Rendered : PressCapture(t)
    \/ PressBubble

(***************************************************************************)
(* JavaScript values of the query-state code.  A string is the sequence of  *)
(* its pieces: single characters where the code reads characters (page),   *)
(* words and "-" where it only splits at "-" or compares (sortBy, status). *)
(***************************************************************************)
\* searchParams.get of a key that is not set, and a filter that is off.
Null == <<"#null">>

\* A destructured array element that does not exist.
Undefined == <<"#undefined">>

\* !v of a string-or-null value.
Falsy(v) == v = Null \/ v = Undefined \/ v = <<>>

\* a || b
OrElse(a, b) == IF Falsy(a) THEN b ELSE a

\* A JavaScript number: an integer, or NaN.
Num(n) == [nan |-> FALSE, val |-> n]

NaN == [nan |-> TRUE, val |-> 0]

\* a < b, a > b, a <= b, a === b and a + n on numbers: every comparison with
\* NaN is false.
NumLt(a, b) == ~a.nan /\ ~b.nan /\ a.val < b.val

NumGt(a, b) == NumLt(b, a)

NumLe(a, b) == ~a.nan /\ ~b.nan /\ a.val <= b.val

NumEq(a, b) == ~a.nan /\ ~b.nan /\ a.val = b.val

NumAdd(a, n) == IF a.nan THEN NaN ELSE Num(a.val + n)

Digits == {ToString(d) : d \in 0..9}

DigitVal(c) == CHOOSE d \in 0..9 : ToString(d) = c

AllDigits(str) == str # <<>> /\ \A i \in 1..Len(str) : str[i] \in Digits

RECURSIVE DigitsValue(_)
DigitsValue(str) ==
    IF str = <<>> THEN 0
    ELSE 10 * DigitsValue(SubSeq(str, 1, Len(str) - 1)) + DigitVal(str[Len(str)])

\* Number(str) for strings of digits, "-" and letters: the integer a decimal
\* numeral denotes, 0 for the empty string, NaN for anything else.
Number(str) ==
    IF str = <<>> THEN Num(0)
    ELSE IF AllDigits(str) THEN Num(DigitsValue(str))
    ELSE IF Head(str) = "-" /\ AllDigits(Tail(str)) THEN Num(0 - DigitsValue(Tail(str)))
    ELSE NaN

RECURSIVE NatToStr(_)
NatToStr(n) ==
    IF n < 10 THEN <<ToString(n)>> ELSE NatToStr(n \div 10) \o <<ToString(n % 10)>>

\* String(number), as searchParams.set applies it to a number.
NumToStr(a) ==
    IF a.nan THEN <<"N", "a", "N">>
    ELSE IF a.val < 0 THEN <<"-">> \o NatToStr(0 - a.val)
    ELSE NatToStr(a.val)

\* str.split("-"): the pieces between the hyphens.
RECURSIVE Split(_)
Split(str) ==
    IF \A i \in 1..Len(str) : str[i] # "-" THEN <<str>>
    ELSE LET i == CHOOSE j \in 1..Len(str) :
                      str[j] = "-" /\ \A k \in 1..(j - 1) : str[k] # "-"
         IN <<SubSeq(str, 1, i - 1)>> \o Split(SubSeq(str, i + 1, Len(str)))

\* const [a, b] = parts
At(parts, i) == IF i <= Len(parts) THEN parts[i] ELSE Undefined

(***************************************************************************)
(* Addressable state: the URL search params and the controls that write    *)
(* them (Filter, SortBy, Pagination).                                      *)
(***************************************************************************)
\* Largest page the Next button is followed to, and how far below page 1 the
\* Previous button is followed.
MaxPage == 4

MaxBelow == 1

ParamKeys == {"status", "sortBy", "sotyBy", "page", "discount"}

\* Filter options of BookingTableOperations and CabinTableOperation.
StatusOptions ==
    {<<"all">>, <<"checked", "-", "out">>, <<"checked", "-", "in">>, <<"unconfirmed">>}

DiscountOptions == {<<"all">>, <<"no", "-", "discount">>, <<"with", "-", "discount">>}

FilterOptions(field) == IF field = "status" THEN StatusOptions ELSE DiscountOptions

\* Options of the SortBy select of the bookings table.
SortOptions ==
    {<<"startDate", "-", "desc">>, <<"startDate", "-", "asc">>,
     <<"totalPrice", "-", "desc">>, <<"totalPrice", "-", "asc">>}

\* What a user can put under a key by editing the address: nothing, or a value
\* that no control writes.
TypedValues(k) ==
    CASE k = "status"  -> {Null, <<>>, <<"checked", "-", "in">>}
      [] k = "sortBy"  -> {Null, <<"totalPrice", "-", "asc">>, <<"startDate">>,
                           <<"startDate", "-", "up">>, <<"-", "asc">>}
      [] k = "sotyBy"  -> {Null, <<"totalPrice", "-", "asc">>}
      [] k = "page"    -> {Null, <<>>, <<"0">>, <<"3">>, <<"a", "b", "c">>}
      [] OTHER         -> {Null}

\* Rows the backend reports for the current filter: not loaded yet
\* (count is undefined, and undefined / PAGE_SIZE is NaN), or a total.
Counts == {NaN, Num(0), Num(5), Num(25), Num(45)}

VARIABLES
    searchParams,  \* useSearchParams: key -> value, Null when the key is not set
    written        \* per key of a control: the value that control wrote last,
                   \* NotWritten once the address was edited by hand

codecVars == <<searchParams, written>>

NotWritten == <<"#not-written">>

\* The number Pagination passed to searchParams.set last, if it did.
NoPage == [set |-> FALSE, num |-> NaN]

PageWritten(a) == [set |-> TRUE, num |-> a]

\* Pagination
PAGE_SIZE == 10

\* Math.ceil(count / PAGE_SIZE)
pageCount(count) ==
    IF count.nan THEN NaN ELSE Num((count.val + PAGE_SIZE - 1) \div PAGE_SIZE)

\* !searchParams.get("page") ? 1 : Number(searchParams.get("page"))
currentPage(sp) == IF Falsy(sp["page"]) THEN Num(1) ELSE Number(sp["page"])

\* if (pageCount <= 1) return null
PaginationShown(count) == ~NumLe(pageCount(count), Num(1))

\* A nextPage that goes on past the last page.
NextOf_NoClamp(cur, pc) == NumAdd(cur, 1)

\* currentPage === pageCount ? currentPage : currentPage + 1
NextOf(cur, pc) == IF NumEq(cur, pc) THEN cur ELSE NumAdd(cur, 1)

\* currentPage === 1 ? currentPage : currentPage - 1
PrevOf(cur) == IF NumEq(cur, Num(1)) THEN cur ELSE NumAdd(cur, -1)

\* An update that starts from an empty address and keeps the written key only.
SetParam_Alone(sp, k, v) == [x \in DOMAIN sp |-> IF x = k THEN v ELSE Null]

\* searchParams.set(key, value); setSearchParams(searchParams)
SetParam(sp, k, v) == [sp EXCEPT ![k] = v]

CodecInit ==
    /\ searchParams = [k \in ParamKeys |-> Null]
    /\ written = [status |-> NotWritten, sortBy |-> NotWritten, page |-> NoPage]

\* Filter.handleClick(value)
FilterHandleClick(field, value) ==
    /\ searchParams' = SetParam(searchParams, field, value)
    /\ written' = IF field = "status"
                  THEN [written EXCEPT !.status = value] ELSE written

\* SortBy.handleChange(event)
SortByHandleChange(value) ==
    /\ searchParams' = SetParam(searchParams, "sortBy", value)
    /\ written' = [written EXCEPT !.sortBy = value]

\* Pagination.nextPage, behind the enabled Next button
nextPage(count) ==
    LET cur == currentPage(searchParams)
        next == NextOf(cur, pageCount(count))
    IN /\ PaginationShown(count)
       /\ ~NumEq(cur, pageCount(count))
       /\ ~next.nan => next.val <= MaxPage
       /\ searchParams' = SetParam(searchParams, "page", NumToStr(next))
       /\ written' = [written EXCEPT !.page = PageWritten(next)]

\* Pagination.prevPage, behind the enabled Previous button
prevPage(count) ==
    LET cur == currentPage(searchParams)
        prev == PrevOf(cur)
    IN /\ PaginationShown(count)
       /\ ~NumEq(cur, Num(1))
       /\ ~prev.nan => prev.val >= 0 - MaxBelow
       /\ searchParams' = SetParam(searchParams, "page", NumToStr(prev))
       /\ written' = [written EXCEPT !.page = PageWritten(prev)]

\* The user edits one key of the address by hand.
Navigate(k, v) ==
    /\ searchParams' = SetParam(searchParams, k, v)
    /\ written' = CASE k = "status" -> [written EXCEPT !.status = NotWritten]
                     [] k = "sortBy" -> [written EXCEPT !.sortBy = NotWritten]
                     [] k = "page"   -> [written EXCEPT !.page = NoPage]
                     [] OTHER        -> written

CodecNext ==
    \/ \E f \in {"status", "discount"} : \E v \in FilterOptions(f) : FilterHandleClick(f, v)
    \/ \E v \in SortOptions : SortByHandleChange(v)
    \/ \E c \in Counts : nextPage(c)
    \/ \E c \in Counts : prevPage(c)
    \/ \E k \in ParamKeys : \E v \in TypedValues(k) : Navigate(k, v)

(***************************************************************************)
(* useBookings: decoding the address into filter, sort and page.           *)
(***************************************************************************)
NullFilter == [null |-> TRUE]

\* The key the hook reads the sort from, and its fallback.
SortParam == "sotyBy"

DefaultSortBy == <<"startDate", "-", "esc">>

\* useBookings (features/bookings/useBookings.js)
useBookings(sp) ==
    LET filterValue == sp["status"]
        filter == IF Falsy(filterValue) \/ filterValue = <<"all">>
                  THEN NullFilter
                  ELSE [null |-> FALSE, field |-> "status", value |-> filterValue]
        sortByRaw == OrElse(sp[SortParam], DefaultSortBy)
        parts == Split(sortByRaw)
        sortBy == [field |-> At(parts, 1), direcion |-> At(parts, 2)]
    IN [filter |-> filter, sortBy |-> sortBy,
        queryKey |-> <<"bookings", filter, sortBy>>]

\* getBookings reads sortBy.field and sortBy.direction.
SortField(sortBy) == sortBy.field

SortDirection(sortBy) ==
    IF "direction" \in DOMAIN sortBy THEN sortBy.direction ELSE Undefined

\* The page the paginated hook of the notes decodes.
Page(sp) == IF Falsy(sp["page"]) THEN Num(1) ELSE Number(sp["page"])

\* The descriptor the data layer works with for the current address.
Descriptor(sp) ==
    [filter |-> useBookings(sp).filter,
     sort |-> [field |-> SortField(useBookings(sp).sortBy),
               direction |-> SortDirection(useBookings(sp).sortBy)],
     page |-> Page(sp)]

(***************************************************************************)
(* The paginated useBookings of the notes: the key it fetches under and    *)
(* the neighbouring pages it prefetches.                                   *)
(***************************************************************************)
\* useBookings with pagination: filter, sortBy, page and the query key
PagedBookings(sp) ==
    LET filterValue == sp["status"]
        filter == IF Falsy(filterValue) \/ filterValue = <<"all">>
                  THEN NullFilter
                  ELSE [null |-> FALSE, field |-> "status", value |-> filterValue]
        sortByRaw == OrElse(sp["sortBy"], <<"startDate", "-", "desc">>)
        parts == Split(sortByRaw)
        sortBy == [field |-> At(parts, 1), direction |-> At(parts, 2)]
        page == IF Falsy(sp["page"]) THEN Num(1) ELSE Number(sp["page"])
    IN [filter |-> filter, sortBy |-> sortBy, page |-> page,
        queryKey |-> <<"bookings", filter, sortBy, page>>]

\* The key of another page under the same filter and sort.
PageKey(sp, page) ==
    <<"bookings", PagedBookings(sp).filter, PagedBookings(sp).sortBy, page>>

\* The pages the hook hands to queryClient.prefetchQuery in one render.
PrefetchPages(page, count) ==
    (IF NumLt(page, pageCount(count)) THEN {NumAdd(page, 1)} ELSE {})
        \cup (IF NumGt(page, Num(1)) THEN {NumAdd(page, -1)} ELSE {})

(***************************************************************************)
(* Resource fetch cache: one entry per key, read through get and prefetch. *)
(***************************************************************************)
\* Totals the backend may report for the bookings shown, and the pages they
\* make reachable.
LoadCounts == {Num(5), Num(25)}

CachePages == {n \in 1..MaxPage : \E c \in LoadCounts : n <= pageCount(c).val}

CacheKeys == {PageKey([k \in ParamKeys |-> Null], Num(n)) : n \in CachePages}

\* Addresses typed by hand while the bookings table is shown.
CacheTypedPages == {Null, <<"3">>}

VARIABLES
    cache,       \* key -> [status, value, loads, awaiting]: loads counts the
                 \* loader calls in flight, awaiting the callers sharing them
    prefetched,  \* what the render of the last step prefetched: the page
                 \* shown, the count known and the pages; NoRender otherwise
    hookError,   \* bookingsError of the hook: an error was surfaced to it
    lastSettle,  \* the load the last step settled: key, outcome, the callers
                 \* that shared it, the callers the cache reported a failure
                 \* to, whether the loader raised a toast; NoSettle otherwise
    invalidated  \* the last step was the onSuccess of a booking mutation

cacheVars == <<cache, prefetched, hookError, lastSettle, invalidated>>

NoEntry == [status |-> "none", value |-> NaN, loads |-> 0, awaiting |-> {}]

\* A get that starts a load of its own although one is in flight.
get_NoSharing(c, k, caller) ==
    IF c[k].status = "fresh" THEN c
    ELSE [c EXCEPT ![k] = [status |-> "pending", value |-> @.value,
                           loads |-> @.loads + 1, awaiting |-> @.awaiting \cup {caller}]]

\* A get that loads again although the entry is fresh.
get_RefetchFresh(c, k, caller) ==
    IF c[k].status = "pending"
    THEN [c EXCEPT ![k].awaiting = @ \cup {caller}]
    ELSE [c EXCEPT ![k] = [status |-> "pending", value |-> @.value,
                           loads |-> @.loads + 1, awaiting |-> {caller}]]

\* get(key, loader) for a foreground caller, prefetch(key, loader) for a
\* background one: a fresh value is served as it is, a load in flight is
\* shared, anything else invokes the loader.
get(c, k, caller) ==
    IF c[k].status = "fresh" THEN c
    ELSE IF c[k].status = "pending"
    THEN [c EXCEPT ![k].awaiting = @ \cup {caller}]
    ELSE [c EXCEPT ![k] = [status |-> "pending", value |-> @.value,
                           loads |-> @.loads + 1, awaiting |-> {caller}]]

RECURSIVE prefetchAll(_, _)
prefetchAll(c, keys) ==
    IF keys = {} THEN c
    ELSE LET k == CHOOSE x \in keys : TRUE
         IN prefetchAll(get(c, k, "prefetch"), keys \ {k})

\* A settle that writes the loaded value over every entry.
resolved_Everywhere(c, k, v) ==
    [x \in DOMAIN c |-> [status |-> "fresh", value |-> v,
                         loads |-> IF x = k THEN c[x].loads - 1 ELSE c[x].loads,
                         awaiting |-> IF x = k THEN {} ELSE c[x].awaiting]]

\* The loader of k returned v.
resolved(c, k, v) ==
    [c EXCEPT ![k] = [status |-> "fresh", value |-> v, loads |-> @.loads - 1,
                      awaiting |-> {}]]

\* An invalidate that reaches the entry of one key only.
invalidate_OneKey(c, resource) ==
    LET hit == {k \in DOMAIN c : k[1] = resource /\ c[k].status = "fresh"}
    IN IF hit = {} THEN c
       ELSE [c EXCEPT ![CHOOSE k \in hit : TRUE].status = "stale"]

\* invalidate(resource): fresh entries of the resource become stale.
invalidate(c, resource) ==
    [k \in DOMAIN c |->
        IF k[1] = resource /\ c[k].status = "fresh"
        THEN [c[k] EXCEPT !.status = "stale"] ELSE c[k]]

\* data.count of the hook: undefined while the key has no value.
CountOf(c, sp) == c[PagedBookings(sp).queryKey].value

\* BookingTable shows the spinner, not the table and its pagination, until
\* the key has data; the pagination is followed while there is a count.
TableShown(c, sp) == ~CountOf(c, sp).nan

\* One render of the hook after the address or the current entry changed:
\* useQuery on a new key is a get, then the neighbours are prefetched.
Render(c, sp, keyChanged) ==
    LET key == PagedBookings(sp).queryKey
        c1 == IF keyChanged THEN get(c, key, "get") ELSE c
        pages == PrefetchPages(PagedBookings(sp).page, CountOf(c1, sp))
    IN prefetchAll(c1, {PageKey(sp, q) : q \in pages})

RenderPrefetched(c, sp, keyChanged) ==
    LET key == PagedBookings(sp).queryKey
        c1 == IF keyChanged THEN get(c, key, "get") ELSE c
    IN [rendered |-> TRUE, page |-> PagedBookings(sp).page, count |-> CountOf(c1, sp),
        pages |-> PrefetchPages(PagedBookings(sp).page, CountOf(c1, sp))]

NoRender == [rendered |-> FALSE, page |-> NaN, count |-> NaN, pages |-> {}]

NoSettle == [key |-> <<>>, ok |-> TRUE, awaiting |-> {}, told |-> {}, toast |-> FALSE]

\* getBookings: the value its promise resolves to and whether it raised a
\* toast.  An error of the query is thrown inside its own try block, caught,
\* shown as a toast, and the function returns undefined.
getBookings(dbError, count) ==
    IF dbError THEN [value |-> NaN, toast |-> TRUE]
    ELSE [value |-> count, toast |-> FALSE]

\* The table mounts on the empty address: page 1 is requested.
CacheInit ==
    /\ cache = Render([k \in CacheKeys |-> NoEntry], [k \in ParamKeys |-> Null], TRUE)
    /\ prefetched = RenderPrefetched([k \in CacheKeys |-> NoEntry],
                                     [k \in ParamKeys |-> Null], TRUE)
    /\ hookError = FALSE
    /\ lastSettle = NoSettle
    /\ invalidated = FALSE

\* The address changes and the hook renders for the new key.
AddressStep ==
    /\ \/ /\ TableShown(cache, searchParams)
          /\ \/ nextPage(CountOf(cache, searchParams))
             \/ prevPage(CountOf(cache, searchParams))
       \/ \E v \in CacheTypedPages : Navigate("page", v)
    /\ PagedBookings(searchParams').queryKey # PagedBookings(searchParams).queryKey
    /\ cache' = Render(cache, searchParams', TRUE)
    /\ prefetched' = RenderPrefetched(cache, searchParams', TRUE)
    /\ hookError' = FALSE
    /\ lastSettle' = NoSettle
    /\ invalidated' = FALSE

\* The table is mounted again (or refocused): useQuery asks for its key anew.
Remount ==
    /\ cache' = Render(cache, searchParams, TRUE)
    /\ cache' # cache
    /\ prefetched' = RenderPrefetched(cache, searchParams, TRUE)
    /\ lastSettle' = NoSettle
    /\ invalidated' = FALSE
    /\ UNCHANGED <<searchParams, written, hookError>>

\* A load in flight settles: the backend answered with a count, or with an
\* error.  The hook renders again when it is its own key.
LoadSettle(k, dbError, count) ==
    /\ cache[k].status = "pending"
    /\ LET result == getBookings(dbError, count)
           c1 == resolved(cache, k, result.value)
           mine == k = PagedBookings(searchParams).queryKey
       IN /\ cache' = IF mine THEN Render(c1, searchParams, FALSE) ELSE c1
          /\ prefetched' = IF mine THEN RenderPrefetched(c1, searchParams, FALSE)
                           ELSE NoRender
          /\ hookError' = IF mine THEN FALSE ELSE hookError
          /\ lastSettle' = [key |-> k, ok |-> ~dbError, awaiting |-> cache[k].awaiting,
                            told |-> {}, toast |-> result.toast]
    /\ invalidated' = FALSE
    /\ UNCHANGED <<searchParams, written>>

LoadResolve(k, v) == LoadSettle(k, FALSE, v)

LoadFail(k) == LoadSettle(k, TRUE, NaN)

\* The freshness window of an entry elapses.
Expire(k) ==
    /\ cache[k].status = "fresh"
    /\ cache' = [cache EXCEPT ![k].status = "stale"]
    /\ prefetched' = NoRender
    /\ lastSettle' = NoSettle
    /\ invalidated' = FALSE
    /\ UNCHANGED <<searchParams, written, hookError>>

\* A booking mutation succeeded: onSuccess invalidates the bookings queries.
Invalidate ==
    /\ cache' = invalidate(cache, "bookings")
    /\ cache' # cache
    /\ prefetched' = NoRender
    /\ lastSettle' = NoSettle
    /\ invalidated' = TRUE
    /\ UNCHANGED <<searchParams, written, hookError>>

CacheNext ==
    \/ AddressStep
    \/ Remount
    \/ \E k \in CacheKeys : \E v \in LoadCounts : LoadResolve(k, v)
    \/ \E k \in CacheKeys : LoadFail(k)
    \/ \E k \in CacheKeys : Expire(k)
    \/ Invalidate

(***************************************************************************)
(* Authentication and mutations: useUser, ProtectedRoute, useLogin,        *)
(* useLogout, the cabins service and the mutation hooks.                   *)
(***************************************************************************)
Users == {"ann"}

NoSession == ""

\* The routes under ProtectedRoute.
ProtectedPages == {"/dashboard", "/bookings", "/cabins", "/settings", "/checkin"}

\* Values a user query can hold: undefined, null, the user object of u, and
\* the { user, session } object signInWithPassword answers with.
NoData == [kind |-> "undefined", id |-> ""]

NullUser == [kind |-> "null", id |-> ""]

UserObject(u) == [kind |-> "user", id |-> u]

LoginResponse(u) == [kind |-> "response", id |-> u]

\* !!value
Truthy(v) == v.kind \notin {"undefined", "null"}

\* The tables behind the mutation hooks.  The cabins table starts with the
\* row of id 1; inserted rows get ids up to MaxRows.  Of the bookings and the
\* settings table the model keeps whether an odd or an even number of
\* mutations has changed it.
Resources == {"bookings", "cabins", "settings"}

MaxRows == 2

Hooks == {"deleteBooking", "deleteCabin", "createCabin", "editCabin",
          "updateSetting", "checkin"}

VARIABLES
    session,       \* the user the backend holds a session for, or NoSession
    userEntry,     \* the cache entry of ["user"]: [status, data]
    route,         \* the route shown
    guard,         \* what ProtectedRoute did in the render of the last step;
                   \* NoGuard when the step did not render it
    lastLogin,     \* the login the last step settled; NoLogin otherwise
    cabins,        \* ids of the rows of the cabins table
    nextId,        \* the id the next inserted cabin row gets
    rev,           \* parity of the changes of the bookings and settings table
    queries,       \* the entries of ["bookings"], ["cabins"], ["settings"]
    lastCall,      \* the createCabin / createEditCabin call of the last step
    lastMutation   \* the mutation the last step settled; NoMutation otherwise

authVars == <<session, userEntry, route, guard, lastLogin>>

mutationVars == <<cabins, nextId, rev, queries, lastCall, lastMutation>>

NoUserEntry == [status |-> "none", data |-> NoData]

\* getCurrentUser: null without a session, throws when getUser fails,
\* data.user otherwise.
getCurrentUser(sess, getUserError) ==
    IF sess = NoSession THEN [threw |-> FALSE, value |-> NullUser]
    ELSE IF getUserError THEN [threw |-> TRUE, value |-> NoData]
    ELSE [threw |-> FALSE, value |-> UserObject(sess)]

\* login of apiAuthServices: throws on an error, returns data otherwise.
login(u, ok) ==
    IF ok THEN [threw |-> FALSE, value |-> LoginResponse(u)]
    ELSE [threw |-> TRUE, value |-> NoData]

\* useUser: { user, userLoading: isPending, isAuthenticated: !!user }
useUser(entry) ==
    [user |-> entry.data,
     userLoading |-> entry.status = "pending",
     isAuthenticated |-> Truthy(entry.data)]

\* useQuery({ queryKey: ["user"], queryFn: getCurrentUser }) of a component
\* that mounts: an entry with nothing loaded starts loading.
Observe(entry) ==
    IF entry.status \in {"none", "error"}
    THEN [status |-> "pending", data |-> NoData] ELSE entry

NoGuard ==
    [rendered |-> FALSE, returned |-> "", userLoading |-> FALSE,
     isAuthenticated |-> FALSE, navigated |-> FALSE]

\* One render of ProtectedRoute and the effect after it: what it returned
\* and whether the effect called navigate("/login").
ProtectedRoute(entry) ==
    LET u == useUser(entry)
    IN [rendered |-> TRUE,
        returned |-> IF u.userLoading THEN "spinner" ELSE "children",
        userLoading |-> u.userLoading,
        isAuthenticated |-> u.isAuthenticated,
        navigated |-> ~u.isAuthenticated /\ ~u.userLoading]

RouteAfter(r, g) == IF g.navigated THEN "/login" ELSE r

\* queryClient.setQueriesData(["user"], value): the entries that exist take
\* the value; whether an entry that does not exist is created is the
\* library's (creates).
setQueriesData(entry, value, creates) ==
    IF entry.status = "none" /\ ~creates THEN entry
    ELSE [status |-> "success", data |-> value]

NoLogin == [settled |-> FALSE, ok |-> FALSE, user |-> ""]

NoCall ==
    [fn |-> "", inserted |-> 0, uploadFailed |-> FALSE, threw |-> FALSE, before |-> {}]

NoMutation == [hook |-> "", failed |-> FALSE]

QueryKeys == {<<r>> : r \in Resources}

NoQuery == [status |-> "none", value |-> {}]

AuthInit ==
    /\ session = NoSession
    /\ userEntry = NoUserEntry
    /\ route = "/login"
    /\ guard = NoGuard
    /\ lastLogin = NoLogin

MutationInit ==
    /\ cabins = {1}
    /\ nextId = 2
    /\ rev = [r \in Resources \ {"cabins"} |-> 0]
    /\ queries = [k \in QueryKeys |-> NoQuery]
    /\ lastCall = NoCall
    /\ lastMutation = NoMutation

\* A step that settles no mutation and leaves the tables and their queries.
NoMutationStep ==
    /\ lastCall' = NoCall
    /\ lastMutation' = NoMutation
    /\ UNCHANGED <<cabins, nextId, rev, queries>>

\* The browser opens a route under ProtectedRoute.
Visit(p) ==
    /\ route = "/login"
    /\ LET e == Observe(userEntry)
           g == ProtectedRoute(e)
       IN /\ userEntry' = e
          /\ guard' = g
          /\ route' = RouteAfter(p, g)
    /\ lastLogin' = NoLogin
    /\ NoMutationStep
    /\ UNCHANGED session

\* The render that follows a change of the ["user"] entry.
RenderAfter(e) ==
    /\ userEntry' = e
    /\ guard' = IF route \in ProtectedPages THEN ProtectedRoute(e) ELSE NoGuard
    /\ route' = IF route \in ProtectedPages
                THEN RouteAfter(route, ProtectedRoute(e)) ELSE route

\* getCurrentUser settles for the pending ["user"] query.
UserSettle(getUserError) ==
    /\ userEntry.status = "pending"
    /\ LET r == getCurrentUser(session, getUserError)
       IN RenderAfter(IF r.threw THEN [status |-> "error", data |-> NoData]
                      ELSE [status |-> "success", data |-> r.value])
    /\ lastLogin' = NoLogin
    /\ NoMutationStep
    /\ UNCHANGED session

\* The loaded ["user"] query is fetched again (stale, on focus or remount).
UserRefetch ==
    /\ route \in ProtectedPages
    /\ userEntry.status = "success"
    /\ LET r == getCurrentUser(session, FALSE)
       IN /\ r.value # userEntry.data
          /\ RenderAfter([status |-> "success", data |-> r.value])
    /\ lastLogin' = NoLogin
    /\ NoMutationStep
    /\ UNCHANGED session

\* useLogin: the login mutation settles.  onSuccess caches the value it was
\* given and navigates to /dashboard, where ProtectedRoute mounts; onError
\* shows a toast.
Login(u, ok) ==
    /\ route = "/login"
    /\ LET r == login(u, ok)
       IN IF r.threw
          THEN UNCHANGED <<session, userEntry, route, guard>>
          ELSE \E creates \in BOOLEAN :
                  LET e == Observe(setQueriesData(userEntry, r.value, creates))
                      g == ProtectedRoute(e)
                  IN /\ session' = u
                     /\ userEntry' = e
                     /\ guard' = g
                     /\ route' = RouteAfter("/dashboard", g)
    /\ lastLogin' = [settled |-> TRUE, ok |-> ok, user |-> u]
    /\ NoMutationStep

\* useLogout onSuccess: removeQueries() and navigate("/login").
Logout ==
    /\ route \in ProtectedPages
    /\ session # NoSession
    /\ session' = NoSession
    /\ userEntry' = NoUserEntry
    /\ queries' = [k \in QueryKeys |-> NoQuery]
    /\ route' = "/login"
    /\ guard' = NoGuard
    /\ lastLogin' = NoLogin
    /\ lastCall' = NoCall
    /\ lastMutation' = NoMutation
    /\ UNCHANGED <<cabins, nextId, rev>>

\* The session ends at the backend (it expired, or was closed elsewhere).
SessionEnds ==
    /\ session # NoSession
    /\ session' = NoSession
    /\ guard' = NoGuard
    /\ lastLogin' = NoLogin
    /\ NoMutationStep
    /\ UNCHANGED <<userEntry, route>>

AuthNext ==
    \/ \E p \in ProtectedPages : Visit(p)
    \/ \E e \in BOOLEAN : UserSettle(e)
    \/ UserRefetch
    \/ \E u \in Users : \E ok \in BOOLEAN : Login(u, ok)
    \/ Logout
    \/ SessionEnds

\* What the ["cabins"], ["bookings"] or ["settings"] query loads.
Stored(r) == IF r = "cabins" THEN cabins ELSE {rev[r]}

\* AppLayout is rendered: ProtectedRoute returned its children.
InApp == route \in ProtectedPages /\ userEntry.status # "pending"

\* The page a hook is used on.
PageOf(hook) ==
    CASE hook = "deleteBooking" -> "/bookings"
      [] hook = "checkin"       -> "/checkin"
      [] hook = "updateSetting" -> "/settings"
      [] OTHER                  -> "/cabins"

\* What the insert answers with: the inserted rows as an array when the
\* request ends in select(), and what the backend answers otherwise.
InsertedRows(id) == [kind |-> "array", ids |-> <<id>>]

NullData == [kind |-> "null", ids |-> <<>>]

\* The id no row has: the value of a property that is not there.
UndefinedId == 0

\* data.id: an array of rows has no id.
DataId(data) == IF data.kind = "object" THEN data.ids[1] ELSE UndefinedId

\* supabase.from("cabins").delete().eq("id", id)
DeleteEq(table, id) == {r \in table : r # id}

\* createCabin(newCabin) of apiCabins.js: insert(...).select(), upload, and
\* on a storage error delete().eq("id", data.id) and throw.
createCabin(table, newId, insertError, storageError) ==
    IF insertError THEN [rows |-> table, threw |-> TRUE]
    ELSE IF storageError
    THEN [rows |-> DeleteEq(table \cup {newId}, DataId(InsertedRows(newId))),
          threw |-> TRUE]
    ELSE [rows |-> table \cup {newId}, threw |-> FALSE]

\* createEditCabin(newCabin) without an id (create mode), for a new image
\* file: as createCabin, with data being what the awaited query answered;
\* reading data.id of null throws before the delete is sent.
createEditCabin(table, newId, insertError, storageError, data) ==
    IF insertError THEN [rows |-> table, threw |-> TRUE]
    ELSE IF storageError
    THEN [rows |-> IF data.kind = "null" THEN table \cup {newId}
                   ELSE DeleteEq(table \cup {newId}, DataId(data)),
          threw |-> TRUE]
    ELSE [rows |-> table \cup {newId}, threw |-> FALSE]

\* The query keys the onSuccess of a hook invalidates; checkin invalidates
\* every active query.
OnSuccessInvalidates(hook) ==
    CASE hook = "deleteBooking" -> {"bookings"}
      [] hook = "updateSetting" -> {"settings"}
      [] hook = "checkin"       -> Resources
      [] OTHER                  -> {"cabins"}

\* navigate("/") in the onSuccess of useCheckin; the index route leads on to
\* the dashboard.
OnSuccessNavigates(hook) == hook = "checkin"

\* An onError that invalidates what onSuccess does.
OnErrorInvalidates_AsSuccess(hook) == OnSuccessInvalidates(hook)

\* The onError of every hook shows a toast and nothing else.
OnErrorInvalidates(hook) == {}

OnErrorNavigates(hook) == FALSE

RECURSIVE invalidateEach(_, _)
invalidateEach(q, rs) ==
    IF rs = {} THEN q
    ELSE LET r == CHOOSE x \in rs : TRUE
         IN invalidateEach(invalidate(q, r), rs \ {r})

\* useMutation: the mutation function settled; onError runs when it threw,
\* onSuccess otherwise.
Settled(hook, failed) ==
    /\ queries' = invalidateEach(queries, IF failed THEN OnErrorInvalidates(hook)
                                          ELSE OnSuccessInvalidates(hook))
    /\ route' = IF (IF failed THEN OnErrorNavigates(hook) ELSE OnSuccessNavigates(hook))
                THEN "/dashboard" ELSE route
    /\ lastMutation' = [hook |-> hook, failed |-> failed]
    /\ guard' = NoGuard
    /\ lastLogin' = NoLogin
    /\ UNCHANGED <<session, userEntry>>

\* The user follows a link of the sidebar.
AppNavigate(p) ==
    /\ InApp
    /\ p # route
    /\ route' = p
    /\ guard' = NoGuard
    /\ lastLogin' = NoLogin
    /\ lastCall' = NoCall
    /\ lastMutation' = NoMutation
    /\ UNCHANGED <<session, userEntry, cabins, nextId, rev, queries>>

\* The pages that use the query of a resource.
PagesOf(r) ==
    CASE r = "cabins"   -> {"/cabins"}
      [] r = "bookings" -> {"/bookings", "/checkin"}
      [] OTHER          -> {"/settings", "/checkin"}

\* A page loads its query, or loads it again once it is stale.
LoadQuery(r) ==
    /\ InApp /\ route \in PagesOf(r)
    /\ queries[<<r>>].status \in {"none", "stale"}
    /\ queries' = [queries EXCEPT ![<<r>>] = [status |-> "fresh", value |-> Stored(r)]]
    /\ lastCall' = NoCall
    /\ lastMutation' = NoMutation
    /\ guard' = NoGuard
    /\ lastLogin' = NoLogin
    /\ UNCHANGED <<session, userEntry, route, cabins, nextId, rev>>

\* useCreateCabin with createCabin of apiCabins.js as its mutation function.
CreateCabin(insertError, storageError) ==
    /\ InApp /\ route = PageOf("createCabin")
    /\ nextId <= MaxRows
    /\ LET r == createCabin(cabins, nextId, insertError, storageError)
       IN /\ cabins' = r.rows
          /\ lastCall' = [fn |-> "createCabin",
                          inserted |-> IF insertError THEN 0 ELSE nextId,
                          uploadFailed |-> ~insertError /\ storageError,
                          threw |-> r.threw, before |-> cabins]
          /\ Settled("createCabin", r.threw)
    /\ nextId' = IF insertError THEN nextId ELSE nextId + 1
    /\ UNCHANGED rev

\* useCreateCabin with createEditCabin(newCabin) as its mutation function.
CreateEditCabin(insertError, storageError, selects) ==
    /\ InApp /\ route = PageOf("createCabin")
    /\ nextId <= MaxRows
    /\ \E data \in (IF selects THEN {InsertedRows(nextId)}
                    ELSE {NullData, InsertedRows(nextId)}) :
         LET r == createEditCabin(cabins, nextId, insertError, storageError, data)
         IN /\ cabins' = r.rows
            /\ lastCall' = [fn |-> "createEditCabin",
                            inserted |-> IF insertError THEN 0 ELSE nextId,
                            uploadFailed |-> ~insertError /\ storageError,
                            threw |-> r.threw, before |-> cabins]
            /\ Settled("createCabin", r.threw)
    /\ nextId' = IF insertError THEN nextId ELSE nextId + 1
    /\ UNCHANGED rev

\* useDeleteCabin: deletingCabin(id) throws on an error.
DeleteCabin(id, fails) ==
    /\ InApp /\ route = PageOf("deleteCabin")
    /\ id \in cabins
    /\ cabins' = IF fails THEN cabins ELSE DeleteEq(cabins, id)
    /\ lastCall' = NoCall
    /\ Settled("deleteCabin", fails)
    /\ UNCHANGED <<nextId, rev>>

\* useEditCabin: createEditCabin(newCabinData, id) throws on an error; the
\* row keeps its id.
EditCabin(id, fails) ==
    /\ InApp /\ route = PageOf("editCabin")
    /\ id \in cabins
    /\ lastCall' = NoCall
    /\ Settled("editCabin", fails)
    /\ UNCHANGED <<cabins, nextId, rev>>

\* useDeleteBooking, useCheckin, useUpdateSetting: the table of the hook
\* changes unless the request throws.
TableMutation(hook, r, fails) ==
    /\ InApp /\ route = PageOf(hook)
    /\ rev' = IF fails THEN rev ELSE [rev EXCEPT ![r] = 1 - @]
    /\ lastCall' = NoCall
    /\ Settled(hook, fails)
    /\ UNCHANGED <<cabins, nextId>>

MutationNext ==
    \/ \E p \in ProtectedPages : AppNavigate(p)
    \/ \E r \in Resources : LoadQuery(r)
    \/ \E i, s \in BOOLEAN : CreateCabin(i, s)
    \/ \E i, s, sel \in BOOLEAN : CreateEditCabin(i, s, sel)
    \/ \E id \in 1..MaxRows : \E f \in BOOLEAN : DeleteCabin(id, f)
    \/ \E id \in 1..MaxRows : \E f \in BOOLEAN : EditCabin(id, f)
    \/ \E f \in BOOLEAN : TableMutation("deleteBooking", "bookings", f)
    \/ \E f \in BOOLEAN : TableMutation("checkin", "bookings", f)
    \/ \E f \in BOOLEAN : TableMutation("updateSetting", "settings", f)

(***************************************************************************)
(* Specifications.                                                         *)
(***************************************************************************)
vars == <<overlayVars, codecVars, cacheVars, authVars, mutationVars>>

Init == OverlayInit /\ CodecInit /\ CacheInit /\ AuthInit /\ MutationInit

\* The overlay registry under presses.
Spec ==
    Init /\ [][OverlayNext
                 /\ UNCHANGED <<codecVars, cacheVars, authVars, mutationVars>>]_vars

\* The addressable state under its controls and hand edits.
SpecCodec ==
    Init /\ [][CodecNext
                 /\ UNCHANGED <<overlayVars, cacheVars, authVars, mutationVars>>]_vars

\* The bookings table: page changes, loads settling, staleness.
SpecCache ==
    Init /\ [][CacheNext /\ UNCHANGED <<overlayVars, authVars, mutationVars>>]_vars

\* The application behind ProtectedRoute: sessions, the user query, and the
\* mutations of the pages.
AppNext == AuthNext \/ MutationNext

SpecApp ==
    Init /\ [][AppNext /\ UNCHANGED <<overlayVars, codecVars, cacheVars>>]_vars

(***************************************************************************)
(* Properties of the overlay registry.                                     *)
(***************************************************************************)
\* The surfaces a provider renders.
ListsShown(s) == {i \in ListIds : ListRendered(openId[s], i)}

WindowsShown(s) == {n \in WindowNames : WindowRendered(openName[s], n)}

\* C1: whatever open, close and toggle calls a registry has seen, it holds at
\* most one open id: openId (openName) is empty or one of the ids (names) its
\* triggers pass, and at most one of its surfaces is rendered.
C1_SingleOpen ==
    \A s \in Scopes :
        /\ openId[s] \in {""} \cup ToggleIds
        /\ openName[s] \in {""} \cup OpenNames
        /\ Cardinality(ListsShown(s)) <= 1
        /\ Cardinality(WindowsShown(s)) <= 1

\* A menu is open in one row after the other row's provider was used too.
C1_Witness ==
    \E s, r \in Scopes :
        /\ s # r
        /\ phase = "idle"
        /\ ListsShown(s) # {}
        /\ position[r] # NullPosition

\* C2: from a closed menu, handleClick of Toggle id run twice in a row, with no
\* other open or close call on the provider in between, leaves the menu closed.
C2_ToggleTwiceCloses ==
    \A s \in Scopes : toggleRun[s].n = 2 => openId[s] = ""

\* Such a second call has just run.
C2_Witness ==
    \E s \in Scopes : toggleRun[s].n = 2 /\ position[s] # NullPosition

\* C3: during a press, a hook instance whose ref held an element has called its
\* handler not at all when the press landed on that element or inside it, and
\* exactly once otherwise.
C3_OutsideClickPrecision ==
    phase = "bubble" =>
        \A d \in Detectors :
            boundaryAt[d] # NoElem =>
                calls[d] = (IF target = boundaryAt[d]
                               \/ Parent(target) = boundaryAt[d]
                            THEN 0 ELSE 1)

\* A press outside an open surface has called the handler once.
C3_Witness ==
    /\ phase = "bubble"
    /\ \E d \in Detectors :
          /\ boundaryAt[d] # NoElem
          /\ target # boundaryAt[d]
          /\ Parent(target) # boundaryAt[d]
          /\ calls[d] = 1

(***************************************************************************)
(* Properties of the query-state codec.                                    *)
(***************************************************************************)
\* What each option of the SortBy select stands for.
SortMeaning(option) ==
    CASE option = <<"startDate", "-", "desc">>  -> [field |-> <<"startDate">>, direction |-> <<"desc">>]
      [] option = <<"startDate", "-", "asc">>   -> [field |-> <<"startDate">>, direction |-> <<"asc">>]
      [] option = <<"totalPrice", "-", "desc">> -> [field |-> <<"totalPrice">>, direction |-> <<"desc">>]
      [] option = <<"totalPrice", "-", "asc">>  -> [field |-> <<"totalPrice">>, direction |-> <<"asc">>]

\* The default the notes give the hook: bookings by start date, newest first.
DocumentedDefaultSort == [field |-> <<"startDate">>, direction |-> <<"desc">>]

StatusFilter(value) ==
    IF value = <<"all">> THEN NullFilter
    ELSE [null |-> FALSE, field |-> "status", value |-> value]

\* status=checked-in&sortBy=totalPrice-asc&page=3
ExampleParams ==
    [k \in ParamKeys |->
        CASE k = "status" -> <<"checked", "-", "in">>
          [] k = "sortBy" -> <<"totalPrice", "-", "asc">>
          [] k = "page"   -> <<"3">>
          [] OTHER        -> Null]

\* C6: once Filter, SortBy and Pagination have each written their part of a
\* descriptor (a status or all, a sort option, a page >= 1), decoding the
\* address gives that descriptor back.
C6_RoundTrip ==
    (/\ written.status # NotWritten
     /\ written.sortBy # NotWritten
     /\ written.page.set /\ ~written.page.num.nan /\ written.page.num.val >= 1)
        => Descriptor(searchParams) =
               [filter |-> StatusFilter(written.status),
                sort |-> SortMeaning(written.sortBy),
                page |-> written.page.num]

\* C9: the example address decodes to status checked-in, sort totalPrice asc,
\* page 3; the decoded sort is the one the sortBy key names, and the default
\* sort when sortBy is not set.
C9_DecodesSort ==
    LET d == Descriptor(searchParams)
        raw == searchParams["sortBy"]
    IN /\ searchParams = ExampleParams =>
              d = [filter |-> StatusFilter(<<"checked", "-", "in">>),
                   sort |-> [field |-> <<"totalPrice">>, direction |-> <<"asc">>],
                   page |-> Num(3)]
       /\ raw \in SortOptions => d.sort = SortMeaning(raw)
       /\ raw = Null => d.sort = DocumentedDefaultSort

\* A value with a character no decimal numeral has.
NotNumeric(str) == \E i \in 1..Len(str) : str[i] \notin Digits \cup {"-"}

\* C10: the decoded page is an integer >= 1; it is 1 when the page key is not
\* set and 1 when its value is not numeric.
C10_PageAtLeastOne ==
    LET p == Page(searchParams)
        raw == searchParams["page"]
    IN /\ ~p.nan /\ p.val >= 1
       /\ raw = Null => p = Num(1)
       /\ (raw # Null /\ NotNumeric(raw)) => p = Num(1)

(***************************************************************************)
(* Properties of the cache and the prefetch policy.                        *)
(***************************************************************************)
CurrentKey == PagedBookings(searchParams).queryKey

\* C5: for every cache key at most one load is in flight at any time: the
\* callers asking for a key while it loads share that one load, and a key is
\* loading exactly while one loader call is outstanding.
C5_AtMostOneLoad ==
    \A k \in CacheKeys :
        /\ cache[k].loads <= 1
        /\ cache[k].status = "pending" <=> cache[k].loads = 1
        /\ cache[k].awaiting # {} => cache[k].loads = 1

\* A foreground get and a prefetch share one in-flight load.
C5_Witness ==
    \E k \in CacheKeys :
        /\ cache[k].status = "pending"
        /\ cache[k].awaiting = {"get", "prefetch"}
        /\ cache[k].loads = 1

\* neighbors(descriptor, totalPages) as stated: page - 1 if at least 1 and
\* page + 1 if at most totalPages; nothing when totalPages is unknown or <= 1.
Neighbors(page, totalPages) ==
    IF totalPages.nan \/ totalPages.val <= 1 THEN {}
    ELSE {Num(q) : q \in {r \in {page.val - 1, page.val + 1} : r >= 1 /\ r <= totalPages.val}}

\* C7: the pages prefetched for page p with total page count T are exactly
\* p-1 (if >= 1) and p+1 (if <= T), and none when T is unknown or T <= 1.
C7_PrefetchedNeighbors ==
    prefetched.rendered =>
        prefetched.pages = Neighbors(prefetched.page, pageCount(prefetched.count))

\* The pages prefetched agree with the stated set whenever the total is
\* known, exceeds 1 and the page shown lies within it.
C7_WithinKnownTotal ==
    (/\ prefetched.rendered
     /\ ~prefetched.count.nan
     /\ pageCount(prefetched.count).val > 1
     /\ prefetched.page.val <= pageCount(prefetched.count).val)
        => prefetched.pages = Neighbors(prefetched.page, pageCount(prefetched.count))

\* A load asked for by prefetch only fails in this step.
PrefetchFails(k) ==
    /\ cache[k].status = "pending"
    /\ cache[k].awaiting = {"prefetch"}
    /\ lastSettle'.key = k
    /\ ~lastSettle'.ok

SortDirections == {<<"asc">>, <<"desc">>}

\* C11: whatever the sortBy value is (no direction part, a direction other
\* than asc or desc, an empty field), the decoded sort has a non-empty field
\* and a direction that is asc or desc.
C11_SortAlwaysValid ==
    LET sortBy == PagedBookings(searchParams).sortBy
    IN /\ sortBy.direction \in SortDirections
       /\ ~Falsy(sortBy.field)

\* The decoded sort is valid whenever sortBy is not set or holds an option of
\* the SortBy select.
C11_ValidWhenWellFormed ==
    searchParams["sortBy"] \in SortOptions \cup {Null}
        => C11_SortAlwaysValid

\* The values an edit of the address can put under a key: what the control of
\* that key writes and what a user types.
EditValues(k) ==
    CASE k = "status" -> StatusOptions \cup TypedValues("status")
      [] k = "sortBy" -> SortOptions \cup TypedValues("sortBy")
      [] k = "page"   -> {NumToStr(Num(n)) : n \in 1..MaxPage} \cup TypedValues("page")

\* Filter, sort and page as the notes' hook decodes them.
Decoded(sp) ==
    [filter |-> PagedBookings(sp).filter, sortBy |-> PagedBookings(sp).sortBy,
     page |-> PagedBookings(sp).page]

\* C12: an address that decodes to a different filter, sort or page than the
\* current one is fetched under a different query key.
C12_DistinctKeys ==
    \A k \in {"status", "sortBy", "page"} : \A v \in EditValues(k) :
        LET other == SetParam(searchParams, k, v)
        IN Decoded(other) # Decoded(searchParams)
              => useBookings(other).queryKey # useBookings(searchParams).queryKey

\* The same, for a change of the filter alone.
C12_DistinctKeysForFilter ==
    \A v \in EditValues("status") :
        LET other == SetParam(searchParams, "status", v)
        IN Decoded(other) # Decoded(searchParams)
              => useBookings(other).queryKey # useBookings(searchParams).queryKey

\* The loader is invoked for k by the next get: a load of k starts.
GetInvokesLoader(k) ==
    /\ get(cache, k, "get")[k].status = "pending"
    /\ get(cache, k, "get")[k].loads = cache[k].loads + 1

C14_FailureBecomesError ==
    (lastSettle.key \in CacheKeys /\ ~lastSettle.ok) =>
        /\ cache[lastSettle.key].status = "error"
        /\ (lastSettle.awaiting \cap {"get"}) \subseteq lastSettle.told
        /\ cache[lastSettle.key].loads = 0

\* After a failed load the cache has not started another load of that key.
C14_NoLoadOfItsOwn ==
    (lastSettle.key \in CacheKeys /\ ~lastSettle.ok) =>
        cache[lastSettle.key].loads = 0

(***************************************************************************)
(* Properties of open, of the anchor, of rendering and of the listeners.   *)
(***************************************************************************)
\* The state of the provider an open call went to.
ProviderState(call) == IF call.provider = "menus" THEN openId ELSE openName

SurfacesShown(call) ==
    IF call.provider = "menus" THEN ListsShown(call.scope) ELSE WindowsShown(call.scope)

\* C15: after open(id), whatever was open before, the provider holds exactly
\* that id, and no surface other than the one of that id shows in it.
C15_OpenReplaces ==
    lastOpen # NoOpen =>
        /\ ProviderState(lastOpen)[lastOpen.scope] = lastOpen.id
        /\ SurfacesShown(lastOpen) \subseteq {lastOpen.id}

\* open(id) was called while another id was open.
C15_Witness ==
    /\ lastOpen # NoOpen
    /\ lastOpen.over # ""
    /\ lastOpen.over # lastOpen.id

\* C16: in every reachable state, a Menus provider whose openId is empty has
\* no position.
C16_NoAnchorWhenClosed ==
    \A s \in Scopes : openId[s] = "" => position[s] = NullPosition

\* C16 as the code has it: a provider whose openId is empty shows no list,
\* and whenever a list shows, position is the one computed from the button of
\* its Toggle: right-aligned with it and MenuOffset below it.
C16_AnchorWhenShown ==
    \A s \in Scopes :
        /\ openId[s] = "" => ListsShown(s) = {}
        /\ \A id \in ListsShown(s) :
              /\ position[s] # NullPosition
              /\ position[s].y = ButtonRect(id).y + ButtonRect(id).height + MenuOffset
              /\ \E w \in InnerWidths :
                    position[s].x = w - ButtonRect(id).width - ButtonRect(id).x

\* A menu was closed and its position is still there; another one shows.
C16_Witness ==
    \E s, r \in Scopes :
        /\ openId[s] = "" /\ position[s] # NullPosition
        /\ ListsShown(r) # {}

\* C17: a Menus.List or Modal.Window shows exactly when the id its provider
\* holds equals its own; so nothing shows while the provider holds "" or an
\* id no surface carries, and at most one surface shows per provider.
C17_RendersIffOpen ==
    /\ \A d \in Detectors :
          d \in Rendered <=>
              (IF d.kind = "list" THEN openId[d.scope] ELSE openName[d.scope]) = d.id
    /\ \A s \in Scopes :
          /\ openId[s] \notin ListIds => ListsShown(s) = {}
          /\ openName[s] \notin WindowNames => WindowsShown(s) = {}
          /\ Cardinality(ListsShown(s)) <= 1
          /\ Cardinality(WindowsShown(s)) <= 1

\* A provider holds an id that no surface carries and shows nothing, while
\* another provider shows its surface.
C17_Witness ==
    \E s, r \in Scopes :
        /\ openId[s] \in ToggleIds \ ListIds
        /\ ListsShown(s) = {}
        /\ openName[r] \in OpenNames \ WindowNames
        /\ WindowsShown(r) = {}
        /\ ListsShown(r) # {}

\* C18: when a press reaches the handlers of the bubble phase, every hook
\* whose element the press was outside of has already called its handler and
\* its provider is already closed, also for a press on an element whose own
\* handler stops propagation.
C18_CaptureBeforeBubble ==
    phase = "bubble" =>
        \A d \in Detectors :
            (boundaryAt[d] # NoElem /\ ~Contains(boundaryAt[d], target)) =>
                /\ calls[d] >= 1
                /\ (IF d.kind = "list" THEN openId[d.scope] ELSE openName[d.scope]) = ""

\* A press on an element that stops propagation closed an open surface.
C18_Witness ==
    /\ phase = "bubble"
    /\ StopsPropagation(target)
    /\ \E d \in Detectors : boundaryAt[d] # NoElem /\ calls[d] = 1

\* C19: a hook whose ref holds no element (its surface is not rendered, or was
\* removed) does not call its handler for a press, and a press that finds no
\* surface of a provider rendered leaves that provider as it was.
C19_NoBoundaryNoEffect ==
    [][(phase = "idle" /\ phase' = "bubble") =>
          /\ \A d \in Detectors : Ref(d) = NoElem => calls'[d] = 0
          /\ \A s \in Scopes :
                /\ ListsShown(s) = {} => openId'[s] = openId[s]
                /\ WindowsShown(s) = {} => openName'[s] = openName[s]
          /\ position' = position]_vars

\* A press landed while a provider held an id whose surface is not rendered,
\* and the id is still held.
C19_Witness ==
    /\ phase = "bubble"
    /\ \E s \in Scopes :
          /\ openId[s] \in ToggleIds \ ListIds
          /\ target.scope # s
          /\ \A d \in Detectors : d.scope = s => boundaryAt[d] = NoElem /\ calls[d] = 0

\* C20: each hook instance has at most one click listener on the document at
\* any time, the one its latest effect run added, with the capture flag of
\* the hook.
C20_OneListener ==
    \A d \in Detectors :
        /\ Cardinality(listeners[d]) <= 1
        /\ listeners[d] = {Listener("current", ListenCapturing(d))}

\* The effect of a list's hook and of a window's hook have run again.
C20_Witness ==
    \E s, r \in Scopes :
        /\ position[s] # NullPosition
        /\ openName[r] # ""
        /\ \A d \in Detectors : Cardinality(listeners[d]) = 1

\* C21: the click listener of a Menus.List or Modal.Window is on the document
\* exactly while its surface shows; while a provider is closed none of its
\* hooks has a listener attached.
C21_ListenerOnlyWhileShown ==
    \A d \in Detectors : listeners[d] # {} <=> Ref(d) # NoElem

\* C21 as the code has it: the hook is called before the component returns
\* null, so its listener is on the document in every state, shown or not; what
\* follows the surface is the element of the ref, and a listener whose ref
\* held no element at a press made no call.
C21_ListenerWhileMounted ==
    \A d \in Detectors :
        /\ \E l \in listeners[d] : l.capture = ListenCapturing(d)
        /\ Ref(d) # NoElem <=>
              (IF d.kind = "list" THEN openId[d.scope] ELSE openName[d.scope]) = d.id
        /\ (phase = "bubble" /\ boundaryAt[d] = NoElem) => calls[d] = 0

\* A press was handled while every surface of one row was closed and another
\* row showed a list: the closed row's listeners are attached and made no
\* call, the open list's listener called close.
C21_Witness ==
    /\ phase = "bubble"
    /\ \E s, r \in Scopes :
          /\ \A d \in Detectors :
                d.scope = s => boundaryAt[d] = NoElem /\ listeners[d] # {} /\ calls[d] = 0
          /\ openId[s] = "" /\ openName[s] = ""
          /\ \E d \in Detectors : d.scope = r /\ d.kind = "list" /\ calls[d] = 1

\* C28: a press on the Toggle of the list that shows leaves the provider
\* closed once the document listener and the Toggle's handleClick have both
\* run.
C28_OwnToggleCloses ==
    [][(/\ phase = "bubble"
        /\ target.kind \in {"toggle", "icon"}
        /\ target.id \in ListIds
        /\ boundaryAt[Elem("list", target.scope, target.id)] # NoElem)
          => openId'[target.scope] = ""]_vars

\* C29: a press on the Toggle of a list of one row while a list of another
\* row shows leaves that other row closed and the pressed row open on the
\* Toggle's id, and between presses at most one row shows a list.
C29_OneRowOpen ==
    /\ [](phase = "idle" => Cardinality({s \in Scopes : ListsShown(s) # {}}) <= 1)
    /\ [][(/\ phase = "bubble"
           /\ target.kind \in {"toggle", "icon"}
           /\ target.id \in ListIds)
             => \A s \in Scopes \ {target.scope} :
                   (\E d \in Detectors :
                        d.kind = "list" /\ d.scope = s /\ boundaryAt[d] # NoElem)
                     => /\ openId'[s] = ""
                        /\ openId'[target.scope] = target.id]_vars

\* A press landed on a Toggle of one row while a list of the other row showed;
\* the listener of that list has called close.
C29_Witness ==
    /\ phase = "bubble"
    /\ target.kind = "toggle"
    /\ \E d \in Detectors :
          /\ d.kind = "list" /\ d.scope # target.scope
          /\ boundaryAt[d] # NoElem /\ calls[d] = 1
          /\ openId[d.scope] = ""

\* C22: a control changes only its own key of the address: SortBy only sortBy,
\* a Filter only its filterField, Pagination only page; every other key keeps
\* the value it had.
C22_OwnKeyOnly ==
    [][/\ \A v \in SortOptions :
             SortByHandleChange(v) =>
                 \A k \in ParamKeys \ {"sortBy"} : searchParams'[k] = searchParams[k]
       /\ \A f \in {"status", "discount"} : \A v \in FilterOptions(f) :
             FilterHandleClick(f, v) =>
                 \A k \in ParamKeys \ {f} : searchParams'[k] = searchParams[k]
       /\ \A c \in Counts :
             (nextPage(c) \/ prevPage(c)) =>
                 \A k \in ParamKeys \ {"page"} : searchParams'[k] = searchParams[k]]_vars

\* Each of the three controls has written its key while the keys of the other
\* two, and a key no control writes, held values: all of them are there.
C22_Witness ==
    /\ searchParams["status"] = written.status
    /\ searchParams["sortBy"] = written.sortBy
    /\ written.page.set /\ searchParams["page"] = NumToStr(written.page.num)
    /\ searchParams["discount"] # Null
    /\ searchParams["sotyBy"] # Null

PageInRange(n, count) ==
    /\ ~n.nan /\ ~pageCount(count).nan
    /\ 1 <= n.val /\ n.val <= pageCount(count).val

\* C25: a nextPage or prevPage call made on a page within 1..pageCount writes
\* a page within 1..pageCount; on the last page nextPage computes the current
\* page, on page 1 prevPage does.
C25_PageStaysInRange ==
    /\ [](\A c \in Counts : \A p \in 1..MaxPage :
             PageInRange(Num(p), c) =>
                 /\ PageInRange(NextOf(Num(p), pageCount(c)), c)
                 /\ PageInRange(PrevOf(Num(p)), c)
                 /\ NextOf(pageCount(c), pageCount(c)) = pageCount(c)
                 /\ PrevOf(Num(1)) = Num(1))
    /\ [][\A c \in Counts :
             ((nextPage(c) \/ prevPage(c))
                    /\ PageInRange(currentPage(searchParams), c)) =>
                 /\ written'.page.set
                 /\ PageInRange(written'.page.num, c)
                 /\ searchParams'["page"] = NumToStr(written'.page.num)]_vars

\* Pagination wrote the last page of a total of 25 rows, and the address holds
\* it.
C25_Witness ==
    /\ written.page = PageWritten(pageCount(Num(25)))
    /\ searchParams["page"] = <<"3">>

\* The edges of an entry's status: created as pending, settled from pending,
\* fresh to stale, and stale or error back to pending.
StatusEdges ==
    {<<"none", "pending">>, <<"pending", "fresh">>, <<"pending", "error">>,
     <<"fresh", "stale">>, <<"stale", "pending">>, <<"error", "pending">>}

C23_ChildrenOnlyWhenAuthenticated ==
    guard.rendered =>
        /\ guard.returned = "children" => guard.isAuthenticated
        /\ guard.userLoading => guard.returned = "spinner"
        /\ (~guard.userLoading /\ ~guard.isAuthenticated) =>
              (guard.navigated /\ route = "/login")

\* C26: a createCabin or createEditCabin call whose upload failed after the
\* insert has thrown and leaves the cabins table with the rows it had before
\* the call.
C26_FailedUploadRollsBack ==
    lastCall.uploadFailed => (lastCall.threw /\ cabins = lastCall.before)

\* C27: right after a login succeeded, the ["user"] entry holds the user
\* object of the user who logged in, loaded; ProtectedRoute finds the user
\* authenticated, returns its children and the route is /dashboard.
C27_LoginCachesUser ==
    (lastLogin.settled /\ lastLogin.ok) =>
        /\ userEntry = [status |-> "success", data |-> UserObject(lastLogin.user)]
        /\ guard.rendered /\ guard.isAuthenticated /\ guard.returned = "children"
        /\ ~guard.navigated
        /\ route = "/dashboard"

====
